---- MODULE Spec2Model ----
(***************************************************************************)
(* A model of python/thundersvmScikit.py: the scikit-learn style wrapper   *)
(* (class SvmModel and its subclasses) around the native thundersvm        *)
(* library.  The wrapper's methods are translated statement by statement;  *)
(* the native entry points it calls through ctypes (model_new, model_free, *)
(* dense_model_scikit, ..., load_from_file_scikit) live in the C++ engine  *)
(* and are modelled from the specification (sections 3, 4.6, 4.7, 6, 7).   *)
(***************************************************************************)
EXTENDS Integers, Sequences, FiniteSets, TLC

VARIABLES est, heap, fs, last, memo, saved

vars == <<est, heap, fs, last, memo, saved>>

-----------------------------------------------------------------------------
(* Bounds and program constants *)

\* number of native model handles the heap can hand out
MaxHandles == 4

SVM_TYPE == <<"c_svc", "nu_svc", "one_class", "epsilon_svr", "nu_svr">>
KERNEL_TYPE == <<"linear", "polynomial", "rbf", "sigmoid", "precomputed">>

\* list.index(x) of Python, 0-based
index(list, x) == (CHOOSE i \in 1..Len(list) : list[i] = x) - 1

Range(s) == {s[i] : i \in 1..Len(s)}

\* an attribute that has not been assigned yet / an assigned attribute
Unset == <<>>
Some(v) == <<v>>

-----------------------------------------------------------------------------
(* Arrays: numpy / scipy / ctypes marshaling *)

\* a sequence given by a rule, written out element by element
Listed(s) == s \o <<>>

RECURSIVE SumSeq(_)
SumSeq(s) == IF s = <<>> THEN 0 ELSE Head(s) + SumSeq(Tail(s))

RECURSIVE Flatten(_)
Flatten(ss) == IF ss = <<>> THEN <<>> ELSE Head(ss) \o Flatten(Tail(ss))

\* X.shape of a 2-d array given as a sequence of rows
shape(X) == <<Len(X), IF Len(X) = 0 THEN 0 ELSE Len(X[1])>>

\* X.ravel(): row-major flattening
ravel(X) == Flatten(X)

\* np.reshape(flat, (r, c)): row-major
reshape(flat, r, c) == Listed([i \in 1..r |-> Listed([j \in 1..c |-> flat[(i - 1) * c + j]])])

\* the positions of the non-zero entries of a row, increasing
NonZero(row) == SelectSeq([j \in 1..Len(row) |-> j], LAMBDA j : row[j] # 0)

\* a matrix in compressed sparse row form (0-based column indices, row pointers)
RECURSIVE RowPtr(_, _)
RowPtr(X, n) == IF n = 0 THEN <<0>>
                ELSE LET p == RowPtr(X, n - 1)
                     IN  Append(p, p[n] + Len(NonZero(X[n])))

csr(X) ==
  [data    |-> Flatten([i \in 1..Len(X) |-> [k \in 1..Len(NonZero(X[i])) |-> X[i][NonZero(X[i])[k]]]]),
   indices |-> Flatten([i \in 1..Len(X) |-> [k \in 1..Len(NonZero(X[i])) |-> NonZero(X[i])[k] - 1]]),
   indptr  |-> RowPtr(X, Len(X))]

MaxOf(S) == IF S = {} THEN -1 ELSE CHOOSE m \in S : \A z \in S : z <= m

\* sp.csr_matrix((data, indices, indptr)): the column count is inferred as
\* max(indices) + 1; toarray() gives the rows back
csr_matrix(data, indices, indptr) ==
  [data |-> data, indices |-> indices, indptr |-> indptr,
   ncol |-> MaxOf(Range(indices)) + 1]

CsrRow(c, i, ncol) ==
  [j \in 1..ncol |->
     LET hits == {k \in (c.indptr[i] + 1)..c.indptr[i + 1] : c.indices[k] = j - 1}
     IN  IF hits = {} THEN 0 ELSE c.data[CHOOSE k \in hits : TRUE]]

toarray(c) == Listed([i \in 1..(Len(c.indptr) - 1) |-> Listed(CsrRow(c, i, c.ncol))])

Dot(a, b) ==
  LET n == IF Len(a) < Len(b) THEN Len(a) ELSE Len(b)
  IN  SumSeq([j \in 1..n |-> a[j] * b[j]])

-----------------------------------------------------------------------------
(* The native engine, as the specification describes it (sections 3, 4.4,   *)
(* 4.6, 4.7, 6, 7).  A fitted model holds the svm kind, kernel, feature     *)
(* count, class labels, rho (one per binary subproblem), per-class support  *)
(* counts, dual coefficients ((K-1) x n_sv) and the support vectors grouped *)
(* by class.                                                                *)

EmptyModel(svm_type) ==
  [trained |-> FALSE, svm_type |-> svm_type, kernel |-> 0, prob |-> 0, nf |-> 0,
   labels |-> <<>>, rho |-> <<>>, n_sup |-> <<>>, coef |-> <<>>, sv |-> <<>>]

RECURSIVE SortedSeq(_)
SortedSeq(S) == IF S = {} THEN <<>>
                ELSE LET m == CHOOSE z \in S : \A w \in S : z <= w
                     IN  <<m>> \o SortedSeq(S \ {m})

IsClassifier(svm_type) == svm_type \in {0, 1}

\* row numbers of the training set grouped by class, classes in label order
GroupByClass(y, labels) ==
  Flatten([k \in 1..Len(labels) |->
             SelectSeq([i \in 1..Len(y) |-> i], LAMBDA i : y[i] = labels[k])])

WeightOf(weight_label, weight, lab) ==
  IF \E i \in 1..Len(weight_label) : weight_label[i] = lab
  THEN weight[CHOOSE i \in 1..Len(weight_label) : weight_label[i] = lab]
  ELSE 1

\* section 4.4 / 4.6: the assembled model of a training set
TrainedModel(svm_type, kernel_type, prob, weight_label, weight, X, y) ==
  LET classif == IsClassifier(svm_type)
      labels  == IF classif THEN SortedSeq(Range(y)) ELSE <<>>
      K       == IF classif THEN Len(labels) ELSE 2
      ord     == IF classif THEN GroupByClass(y, labels) ELSE Listed([i \in 1..Len(y) |-> i])
      nsv     == Len(ord)
      cls(i)  == IF classif THEN index(labels, y[ord[i]]) + 1 ELSE 1
      wt(i)   == WeightOf(weight_label, weight, y[ord[i]])
  IN  [trained  |-> TRUE, svm_type |-> svm_type, kernel |-> kernel_type, prob |-> prob,
       nf       |-> IF Len(X) = 0 THEN 0 ELSE Len(X[1]),
       labels   |-> labels,
       rho      |-> Listed([p \in 1..((K * (K - 1)) \div 2) |-> p + nsv]),
       n_sup    |-> IF classif
                    THEN Listed([k \in 1..K |-> Cardinality({i \in 1..nsv : cls(i) = k})])
                    ELSE <<nsv, 0>>,
       coef     |-> Listed([j \in 1..(K - 1) |-> Listed([i \in 1..nsv |->
                       IF classif THEN (IF cls(i) <= j THEN wt(i) * i ELSE 0 - wt(i) * i)
                       ELSE y[ord[i]]])]),
       sv       |-> Listed([i \in 1..nsv |-> X[ord[i]]])]

n_classes_of(m) == IF ~m.trained THEN 0
                   ELSE IF IsClassifier(m.svm_type) THEN Len(m.labels) ELSE 2

\* class (1-based) of support vector i: support vectors are grouped by class
ClsOf(m, i) == CHOOSE k \in 1..Len(m.n_sup) :
                 /\ SumSeq(SubSeq(m.n_sup, 1, k)) >= i
                 /\ SumSeq(SubSeq(m.n_sup, 1, k - 1)) < i

\* the class pairs of one-vs-one, in subproblem order
ClassPairs(K) ==
  Flatten([a \in 1..K |-> [d \in 1..(K - a) |-> <<a, a + d>>]])

\* section 4.7: decision value of one binary subproblem for one vector
DecisionValue(m, p, x) ==
  LET sim == Listed([i \in 1..Len(m.sv) |-> Dot(m.sv[i], x)])
      cls == Listed([i \in 1..Len(m.sv) |-> ClsOf(m, i)])
  IN  IF IsClassifier(m.svm_type)
      THEN LET pr == ClassPairs(Len(m.labels))[p]
           IN  SumSeq([i \in 1..Len(m.sv) |->
                         IF cls[i] = pr[1] THEN sim[i]
                         ELSE IF cls[i] = pr[2] THEN 0 - sim[i] ELSE 0])
      ELSE SumSeq([i \in 1..Len(m.sv) |-> m.coef[1][i] * sim[i]]) - m.rho[1]

DecisionValues(m, x) == Listed([p \in 1..Len(m.rho) |-> DecisionValue(m, p, x)])

\* one-vs-one voting; majority wins, ties to the lowest class index
Votes(prs, dv, k) ==
  Cardinality({p \in 1..Len(prs) :
     \/ prs[p][1] = k /\ dv[p] >= 0
     \/ prs[p][2] = k /\ dv[p] < 0})

PredictOne(m, x) ==
  IF ~m.trained THEN 0
  ELSE IF IsClassifier(m.svm_type)
  THEN LET K     == Len(m.labels)
           prs   == ClassPairs(K)
           dv    == DecisionValues(m, x)
           votes == Listed([k \in 1..K |-> Votes(prs, dv, k)])
           best  == CHOOSE k \in 1..K :
                      /\ \A j \in 1..K : votes[j] <= votes[k]
                      /\ \A j \in 1..(k - 1) : votes[j] < votes[k]
       IN  m.labels[best]
  ELSE DecisionValue(m, 1, x)

PredictRows(m, rows) == Listed([r \in 1..Len(rows) |-> PredictOne(m, rows[r])])

\* probabilities of the last prediction, samples x n_classes, flat, in percent
ProbRows(m, rows) ==
  LET pred == PredictRows(m, rows)
  IN  Flatten([r \in 1..Len(rows) |-> [k \in 1..n_classes_of(m) |->
                 IF IsClassifier(m.svm_type) /\ m.trained /\ m.labels[k] = pred[r]
                 THEN 100 ELSE 0]])

\* rows of a CSR triple as the engine reads them (feature count = max index + 1)
RowsOfCsr(data, indptr, indices) == toarray(csr_matrix(data, indices, indptr))

-----------------------------------------------------------------------------
(* Section 6: the persisted model.  One line per support vector,            *)
(* `coef1 coef2 ... idx1:val1 idx2:val2 ...`, zero features left out.       *)

NoFile == [kind |-> "none", body |-> <<>>]
Corrupt == [kind |-> "corrupt", body |-> <<>>]

SvLine(m, i) ==
  [coefs |-> [j \in 1..Len(m.coef) |-> m.coef[j][i]],
   feats |-> [k \in 1..Len(NonZero(m.sv[i])) |->
                <<NonZero(m.sv[i])[k], m.sv[i][NonZero(m.sv[i])[k]]>>]]

Serialize(m) ==
  [kind |-> "model",
   body |-> <<[svm_type |-> m.svm_type, kernel |-> m.kernel, prob |-> m.prob,
               nf |-> m.nf, nr_class |-> Len(m.n_sup), labels |-> m.labels,
               rho |-> m.rho, n_sup |-> m.n_sup, trained |-> m.trained,
               lines |-> [i \in 1..Len(m.sv) |-> SvLine(m, i)]]>>]

FeatOf(line, j) ==
  IF \E k \in 1..Len(line.feats) : line.feats[k][1] = j
  THEN line.feats[CHOOSE k \in 1..Len(line.feats) : line.feats[k][1] = j][2]
  ELSE 0

Parse(file) ==
  LET b == file.body[1]
  IN  [trained |-> b.trained, svm_type |-> b.svm_type, kernel |-> b.kernel, prob |-> b.prob,
       nf |-> b.nf, labels |-> b.labels, rho |-> b.rho, n_sup |-> b.n_sup,
       coef |-> Listed([j \in 1..(IF Len(b.lines) = 0 THEN 0 ELSE Len(b.lines[1].coefs)) |->
                   Listed([i \in 1..Len(b.lines) |-> b.lines[i].coefs[j]])]),
       sv |-> Listed([i \in 1..Len(b.lines) |-> Listed([j \in 1..b.nf |-> FeatOf(b.lines[i], j)])])]

-----------------------------------------------------------------------------
(* The native heap and the entry points of section 6.  A handle is live     *)
(* from model_new until model_free.  Reading through a handle that is not   *)
(* live is undefined: the engine may see any model there.                   *)

Handles == 1..MaxHandles

FreeCell == [st |-> "unalloc", m |-> EmptyModel(0), pro |-> <<>>]

Live(hp, h) == h \in Handles /\ hp[h].st = "live"

CanAlloc(hp) == \E h \in Handles : hp[h].st = "unalloc"

\* model_new(svm_type): a fresh handle holding an empty model
model_new_handle(hp) ==
  CHOOSE h \in Handles : hp[h].st = "unalloc" /\ \A k \in Handles : hp[k].st = "unalloc" => h <= k

model_new(hp, svm_type) ==
  [hp EXCEPT ![model_new_handle(hp)] = [st |-> "live", m |-> EmptyModel(svm_type), pro |-> <<>>]]

\* model_free(handle): the handle is no longer live (freeing twice leaves it so)
model_free(hp, h) ==
  [hp EXCEPT ![h] = [st |-> "freed", m |-> EmptyModel(0), pro |-> <<>>]]

\* what dangling memory may look like to the engine
Garbage ==
  {EmptyModel(0),
   TrainedModel(0, 2, 0, <<>>, <<>>, << <<0, 1>>, <<1, 1>> >>, <<1, 0>>)}

\* the models a native call may find behind handle h
Deref(hp, h) == IF Live(hp, h) THEN {hp[h].m} ELSE Garbage

\* a native write through handle h: lost when the handle is not live
StoreModel(hp, h, m) == IF Live(hp, h) THEN [hp EXCEPT ![h].m = m] ELSE hp
StorePro(hp, h, pro) == IF Live(hp, h) THEN [hp EXCEPT ![h].pro = pro] ELSE hp

\* section 4.4: an unknown class id in the weight map is a configuration error
WeightsOk(svm_type, weight_label, y) ==
  IsClassifier(svm_type) => Range(weight_label) \subseteq Range(y)

\* train_dense / train_sparse: (model, n_features, n_classes, success flag);
\* a failed training leaves no model; `wrote` says whether the counts were
\* written to the output arguments before the failure
TrainResult(X, y, solver_type, kernel_type, prob, weight_label, weight, ok, wrote) ==
  LET m    == TrainedModel(solver_type, kernel_type, prob, weight_label, weight, X, y)
      good == ok /\ WeightsOk(solver_type, weight_label, y)
  IN  [m          |-> IF good THEN m ELSE EmptyModel(solver_type),
       n_features |-> IF good \/ wrote THEN m.nf ELSE 0,
       n_classes  |-> IF good \/ wrote THEN n_classes_of(m) ELSE 0,
       succeed    |-> IF good THEN 1 ELSE -1]

dense_model_scikit(samples, features, data, label, solver_type, kernel_type, prob, weight_size, weight_label, weight, ok, wrote) ==
  TrainResult(reshape(data, samples, features), label, solver_type, kernel_type,
              prob, SubSeq(weight_label, 1, weight_size), SubSeq(weight, 1, weight_size),
              ok, wrote)

sparse_model_scikit(row_size, data, indptr, indices, label, solver_type, kernel_type, prob, weight_size, weight_label, weight, ok, wrote) ==
  TrainResult(RowsOfCsr(data, indptr, indices), label, solver_type, kernel_type,
              prob, SubSeq(weight_label, 1, weight_size), SubSeq(weight, 1, weight_size),
              ok, wrote)

\* the read-only getters
n_sv(m) == Len(m.sv)
get_sv(m) == csr(m.sv)
Pad(s, n) == Listed([i \in 1..n |-> IF i <= Len(s) THEN s[i] ELSE 0])
get_coef(m, n_classes, nsv) == Pad(Flatten(m.coef), (n_classes - 1) * nsv)
get_rho(m, rho_size) == Pad(m.rho, rho_size)
get_support_classes(m, n_classes) == Pad(m.n_sup, n_classes)
get_n_classes(m) == n_classes_of(m)
get_n_binary_models(m) == Len(m.rho)

dense_predict(samples, features, data, m) == PredictRows(m, reshape(data, samples, features))
sparse_predict(row_size, data, indptr, indices, m) == PredictRows(m, RowsOfCsr(data, indptr, indices))
dense_decision(samples, features, data, m) ==
  Flatten([r \in 1..samples |-> DecisionValues(m, reshape(data, samples, features)[r])])
sparse_decision(row_size, data, indptr, indices, m) ==
  Flatten([r \in 1..row_size |-> DecisionValues(m, RowsOfCsr(data, indptr, indices)[r])])

\* the files: one writable path, one holding a corrupt file, one invalid path
Paths == {"model.txt", "corrupt.txt", "nodir/model.txt"}
Writable(path) == path = "model.txt"

save_to_file_scikit(files, m, path) ==
  IF Writable(path) THEN [files EXCEPT ![path] = Serialize(m)] ELSE files

\* section 7: a failing load leaves the in-memory model untouched
load_from_file_scikit(hp, h, files, path) ==
  IF files[path].kind = "model" THEN StoreModel(hp, h, Parse(files[path])) ELSE hp

-----------------------------------------------------------------------------
(* The wrapper: class SvmModel.  A method is an operator from a world       *)
(* w = [self, heap, fs, calls, ret, exc] to the world it leaves: `self` is  *)
(* the estimator's attributes, `calls` the native entry points invoked, in  *)
(* order, `ret` the value returned and `exc` the exception raised ("" for   *)
(* none).                                                                   *)

None == [kind |-> "None", val |-> <<>>]
Self == [kind |-> "self", val |-> <<>>]
Array(a) == [kind |-> "array", val |-> a]

Return(w, r) == [w EXCEPT !.ret = r]
Raise(w, e) == [w EXCEPT !.exc = e]
NativeCall(w, name) == [w EXCEPT !.calls = Append(@, name)]

\* Python's callable(): the kernels of the model are strings, bar this token
callable(kernel) == kernel = "<function>"

\* class_weight: None, or a dict given as its (key, value) items in order
NoWeights == [none |-> TRUE, d |-> <<>>]
dict == [none |-> FALSE, d |-> <<>>]
keys(cw) == [i \in 1..Len(cw.d) |-> cw.d[i][1]]
values(cw) == [i \in 1..Len(cw.d) |-> cw.d[i][2]]

\* SvmModel.__init__ with the constructor arguments of the subclass
SvmModel(impl, kernel, probability, class_weight, handle) ==
  [_impl |-> impl,
   kernel |-> kernel, degree |-> 3, gamma |-> "auto", coef0 |-> 0, C |-> 1,
   nu |-> 0, epsilon |-> 0, tol |-> "0.001", probability |-> probability,
   class_weight |-> class_weight, shrinking |-> FALSE, cache_size |-> "None",
   verbose |-> FALSE, max_iter |-> -1, n_jobs |-> -1, random_state |-> "None",
   max_mem_size |-> -1,
   model |-> handle,
   _sparse |-> Unset, _gamma |-> Unset, _train_succeed |-> Unset,
   n_features |-> Unset, n_classes |-> Unset,
   n_sv |-> Unset, dual_coef_ |-> Unset, n_binary_model |-> Unset,
   intercept_ |-> Unset, row |-> Unset, col |-> Unset, data |-> Unset,
   support_vectors_ |-> Unset, n_support_ |-> Unset, shape_fit_ |-> Unset,
   predict_label_ptr |-> Unset, predict_label |-> Unset,
   predict_pro_ptr |-> Unset, predict_prob |-> Unset, dec_values |-> Unset]

\* check_X_y that forgets to compare the number of rows with the number of labels
check_X_y_unchecked_length(X, y) == Len(X) > 0

\* check_X_y: the rows and the labels must agree in number, and not be empty
check_X_y(X, y) == Len(X) = Len(y) /\ Len(X) > 0

\* check_array: at least one sample
check_array(X) == Len(X) > 0

_dense_fit(w, X, y, solver_type, kernel, ok, wrote) ==
  LET self         == w.self
      samples      == shape(X)[1]
      features     == shape(X)[2]
      data         == ravel(X)
      weight_size  == IF self.class_weight.none THEN 0 ELSE Len(self.class_weight.d)
      class_weight == IF self.class_weight.none THEN dict ELSE self.class_weight
      weight_label == keys(class_weight)
      weight       == values(class_weight)
      r == dense_model_scikit(samples, features, data, y, solver_type, kernel,
                              self.probability, weight_size, weight_label, weight, ok, wrote)
  IN  [w EXCEPT !.self.class_weight = class_weight,
                !.self._train_succeed = Some(r.succeed),
                !.self.n_features = Some(r.n_features),
                !.self.n_classes = Some(r.n_classes),
                !.heap = StoreModel(w.heap, self.model, r.m),
                !.calls = Append(@, "dense_model_scikit")]

_sparse_fit(w, X, y, solver_type, kernel, ok, wrote) ==
  LET self         == w.self
      Xc           == csr(X)
      weight_size  == IF self.class_weight.none THEN 0 ELSE Len(self.class_weight.d)
      class_weight == IF self.class_weight.none THEN dict ELSE self.class_weight
      weight_label == keys(class_weight)
      weight       == values(class_weight)
      r == sparse_model_scikit(shape(X)[1], Xc.data, Xc.indptr, Xc.indices, y, solver_type,
                               kernel, self.probability, weight_size, weight_label, weight,
                               ok, wrote)
  IN  [w EXCEPT !.self.class_weight = class_weight,
                !.self._train_succeed = Some(r.succeed),
                !.self.n_features = Some(r.n_features),
                !.self.n_classes = Some(r.n_classes),
                !.heap = StoreModel(w.heap, self.model, r.m),
                !.calls = Append(@, "sparse_model_scikit")]

\* the failure test of fit looking for 0 where the engine reports -1
train_failed_wrong_flag(self) == self._train_succeed = Some(0)

\* fit, line 104: the training call reported failure
train_failed(self) == self._train_succeed = Some(-1)

\* fit, lines 107-139: the fitted attributes read back from the native model
fit_extract(w, Xshape) ==
  LET self      == w.self
      m         == CHOOSE g \in Deref(w.heap, self.model) : TRUE
      nsv       == n_sv(m)
      ncls      == self.n_classes[1]
      sv        == get_sv(m)
      dual_coef == get_coef(m, ncls, nsv)
      rho_size  == (ncls * (ncls - 1)) \div 2
      rho       == get_rho(m, rho_size)
      mat       == csr_matrix(sv.data, sv.indices, sv.indptr)
      nsup      == get_support_classes(m, ncls)
  IN  [w EXCEPT !.self.n_sv = Some(nsv),
                !.self.dual_coef_ = Some(reshape(dual_coef, ncls - 1, nsv)),
                !.self.n_binary_model = Some(rho_size),
                !.self.intercept_ = Some(rho),
                !.self.row = Some(sv.indptr),
                !.self.col = Some(sv.indices),
                !.self.data = Some(sv.data),
                !.self.support_vectors_ =
                   Some(IF self._sparse = Some(FALSE)
                        THEN [dense |-> TRUE, rows |-> toarray(mat), mat |-> <<>>]
                        ELSE [dense |-> FALSE, rows |-> <<>>, mat |-> <<mat>>]),
                !.self.n_support_ = Some(nsup),
                !.self.shape_fit_ = Some(Xshape),
                !.calls = @ \o <<"n_sv", "get_sv", "get_coef", "get_rho", "get_support_classes">>,
                !.ret = Self]

\* fit.  self.model is never None (every constructor calls model_new), so the
\* model_free of line 82 always runs; the new handle is taken at line 102 only.
\* `ok` is whether the engine's training succeeds, `wrote` whether a failing
\* training still writes n_features and n_classes.
fit(w, Xin, y, ok, wrote) ==
  LET self0  == w.self
      w1     == [w EXCEPT !.heap = model_free(w.heap, self0.model),
                          !.calls = Append(@, "model_free")]
      sparse == Xin.sparse
      w2     == [w1 EXCEPT !.self._sparse = Some(sparse /\ ~callable(self0.kernel))]
  IN  IF ~check_X_y(Xin.rows, y) THEN Raise(w2, "ValueError")
      ELSE
      LET X           == Xin.rows
          solver_type == index(SVM_TYPE, self0._impl)
          w3 == [w2 EXCEPT !.self._gamma =
                    Some(IF self0.gamma = "auto" THEN <<1, shape(X)[2]>> ELSE <<self0.gamma, 1>>)]
      IN  IF self0.kernel \notin Range(KERNEL_TYPE) THEN Raise(w3, "SystemExit")
          ELSE
          LET kernel == index(KERNEL_TYPE, self0.kernel)
              w4 == [w3 EXCEPT !.self.model = model_new_handle(w3.heap),
                               !.heap = model_new(w3.heap, solver_type),
                               !.calls = Append(@, "model_new")]
              w5 == IF w4.self._sparse = Some(TRUE)
                    THEN _sparse_fit(w4, X, y, solver_type, kernel, ok, wrote)
                    ELSE _dense_fit(w4, X, y, solver_type, kernel, ok, wrote)
          IN  IF train_failed(w5.self) THEN Return(w5, None)
              ELSE fit_extract(w5, shape(X))

-----------------------------------------------------------------------------
(* Prediction.  `g` is the model the native calls find behind self.model   *)
(* (the model itself when the handle is live).                              *)

_validate_for_predict(w, Xin) ==
  LET w1 == [w EXCEPT !.self._sparse = Some(Xin.sparse /\ ~callable(w.self.kernel))]
  IN  IF ~check_array(Xin.rows) THEN Raise(w1, "ValueError")
      ELSE IF /\ (Xin.sparse \/ w1.self._sparse = Some(TRUE))
              /\ w1.self._sparse # Some(TRUE)
              /\ ~callable(w1.self.kernel)
      THEN Raise(w1, "ValueError")
      ELSE w1

\* _dense_predict that hands back the labels it already holds
_dense_predict_cached(w, X, g) ==
  LET samples  == shape(X)[1]
      features == shape(X)[2]
      data     == ravel(X)
      out      == dense_predict(samples, features, data, g)
  IN  IF w.self.predict_label # Unset
      THEN [w EXCEPT !.ret = Array(w.self.predict_label[1])]
      ELSE [w EXCEPT !.self.predict_label_ptr = Some(out),
                     !.self.predict_label = Some([i \in 1..shape(X)[1] |-> out[i]]),
                     !.heap = StorePro(w.heap, w.self.model, ProbRows(g, X)),
                     !.calls = Append(@, "dense_predict"),
                     !.ret = Array([i \in 1..shape(X)[1] |-> out[i]])]

_dense_predict(w, X, g) ==
  LET samples  == shape(X)[1]
      features == shape(X)[2]
      data     == ravel(X)
      out      == dense_predict(samples, features, data, g)
  IN  [w EXCEPT !.self.predict_label_ptr = Some(out),
                !.self.predict_label = Some([i \in 1..shape(X)[1] |-> out[i]]),
                !.heap = StorePro(w.heap, w.self.model, ProbRows(g, X)),
                !.calls = Append(@, "dense_predict"),
                !.ret = Array([i \in 1..shape(X)[1] |-> out[i]])]

_sparse_predict(w, X, g) ==
  LET Xc  == csr(X)
      out == sparse_predict(shape(X)[1], Xc.data, Xc.indptr, Xc.indices, g)
  IN  [w EXCEPT !.self.predict_label_ptr = Some(out),
                !.self.predict_label = Some([i \in 1..shape(X)[1] |-> out[i]]),
                !.heap = StorePro(w.heap, w.self.model, ProbRows(g, X)),
                !.calls = Append(@, "sparse_predict"),
                !.ret = Array([i \in 1..shape(X)[1] |-> out[i]])]

predict(w, Xin, g) ==
  LET w1 == _validate_for_predict(w, Xin)
  IN  IF w1.exc # "" THEN w1
      ELSE IF w1.self._sparse = Some(TRUE) THEN _sparse_predict(w1, Xin.rows, g)
      ELSE _dense_predict(w1, Xin.rows, g)

\* the probability test of predict_proba looking for -1 instead of 0
probability_off_wrong_value(self) == self.probability = -1

\* predict_proba, line 250: the estimator was built without probability
probability_off(self) == self.probability = 0

predict_proba(w, Xin, g) ==
  LET w0 == [w EXCEPT !.self.n_classes = Some(get_n_classes(g)),
                      !.calls = Append(@, "get_n_classes")]
  IN  IF probability_off(w0.self) THEN Return(w0, None)
      ELSE
      LET ncls    == w0.self.n_classes[1]
          size    == shape(Xin.rows)[1] * ncls
          samples == shape(Xin.rows)[1]
          w1 == [w0 EXCEPT !.self.predict_pro_ptr = Some(Pad(<<>>, size))]
          w2 == _validate_for_predict(w1, Xin)
      IN  IF w2.exc # "" THEN w2
          ELSE
          LET w3  == IF w2.self._sparse = Some(TRUE) THEN _sparse_predict(w2, Xin.rows, g)
                     ELSE _dense_predict(w2, Xin.rows, g)
              \* get_pro copies the probabilities of the prediction just made
              pro == Pad(IF Live(w3.heap, w3.self.model) THEN w3.heap[w3.self.model].pro
                         ELSE ProbRows(g, Xin.rows), size)
          IN  [w3 EXCEPT !.self.predict_pro_ptr = Some(pro),
                         !.self.predict_prob = Some(reshape(pro, samples, ncls)),
                         !.calls = Append(@, "get_pro"),
                         !.ret = Array(reshape(pro, samples, ncls))]

_dense_decision_function(w, X, g) ==
  LET samples  == shape(X)[1]
      features == shape(X)[2]
      nbin     == w.self.n_binary_model[1]
      dec_size == shape(X)[1] * nbin
      dec      == Pad(dense_decision(samples, features, ravel(X), g), dec_size)
  IN  [w EXCEPT !.self.dec_values = Some(reshape(dec, shape(X)[1], nbin)),
                !.calls = Append(@, "dense_decision"),
                !.ret = Array(reshape(dec, shape(X)[1], nbin))]

_sparse_decision_function(w, X, g) ==
  LET Xc       == csr(X)
      nbin     == w.self.n_binary_model[1]
      dec_size == shape(X)[1] * nbin
      dec      == Pad(sparse_decision(shape(X)[1], Xc.data, Xc.indptr, Xc.indices, g), dec_size)
  IN  [w EXCEPT !.self.dec_values = Some(reshape(dec, shape(X)[1], nbin)),
                !.calls = Append(@, "sparse_decision"),
                !.ret = Array(reshape(dec, shape(X)[1], nbin))]

decision_function(w, Xin, g) ==
  LET w1 == _validate_for_predict(w, Xin)
  IN  IF w1.exc # "" THEN w1
      ELSE
      LET w2 == [w1 EXCEPT !.self.n_binary_model = Some(get_n_binary_models(g)),
                           !.calls = Append(@, "get_n_binary_models")]
      IN  IF w2.self._impl \notin {"c_svc", "nu_svc", "one_class"} THEN Return(w2, None)
          ELSE IF w2.self._sparse = Some(TRUE) THEN _sparse_decision_function(w2, Xin.rows, g)
          ELSE _dense_decision_function(w2, Xin.rows, g)

save_to_file(w, path, g) ==
  [w EXCEPT !.fs = save_to_file_scikit(w.fs, g, path),
            !.calls = Append(@, "save_to_file_scikit")]

\* load_from_file that takes a new native model first, as fit does
load_from_file_new_model(w, path) ==
  LET w1 == IF CanAlloc(w.heap)
            THEN [w EXCEPT !.self.model = model_new_handle(w.heap),
                           !.heap = model_new(w.heap, index(SVM_TYPE, w.self._impl)),
                           !.calls = Append(@, "model_new")]
            ELSE w
  IN  [w1 EXCEPT !.heap = load_from_file_scikit(w1.heap, w1.self.model, w1.fs, path),
                 !.calls = Append(@, "load_from_file_scikit")]

load_from_file(w, path) ==
  [w EXCEPT !.heap = load_from_file_scikit(w.heap, w.self.model, w.fs, path),
            !.calls = Append(@, "load_from_file_scikit")]

-----------------------------------------------------------------------------
(* The state machine: two estimators of one SVM kind, the native heap and   *)
(* the files.  `last` records the latest call; `memo` and `saved` are       *)
(* history variables: what predict returned for an input since the latest   *)
(* fit or load_from_file, and the fitted attributes of the estimator that   *)
(* wrote a file.                                                            *)

Est == {"A", "B"}

Impls == {"c_svc", "epsilon_svr"}
Kernels == {"rbf", "gaussian"}
\* class_weight is a constructor argument of SVC alone
ClassWeights(impl) ==
  IF impl = "c_svc" THEN {NoWeights, [none |-> FALSE, d |-> << <<0, 2>> >>]} ELSE {NoWeights}

FitInputs ==
  {[name |-> "D1", sparse |-> FALSE, rows |-> << <<1, 0>>, <<0, 1>> >>, y |-> <<0, 1>>],
   [name |-> "S2", sparse |-> TRUE, rows |-> << <<1, 1>>, <<0, 1>>, <<1, 0>> >>, y |-> <<2, 0, 1>>],
   [name |-> "Bad", sparse |-> FALSE, rows |-> << <<1, 0>>, <<0, 1>> >>, y |-> <<0>>]}

PredictInputs ==
  {[name |-> "P1", sparse |-> FALSE, rows |-> << <<1, 0>> >>],
   [name |-> "P2", sparse |-> TRUE, rows |-> << <<0, 1>> >>]}

PredictNames == {x.name : x \in PredictInputs}

NoCall == [e |-> "", op |-> "", arg |-> "", calls |-> <<>>, ret |-> None, exc |-> ""]

FittedAttrs(self) ==
  [support_vectors_ |-> self.support_vectors_, dual_coef_ |-> self.dual_coef_,
   intercept_ |-> self.intercept_, n_support_ |-> self.n_support_]

\* the estimator holds a live handle to a trained model
Fitted(e) == Live(heap, est[e].model) /\ heap[est[e].model].m.trained

NotSaved == [fitted |-> FALSE, attrs |-> FittedAttrs(SvmModel("c_svc", "rbf", 0, NoWeights, 0))]

\* both estimators are built with the same constructor arguments
Constructed(impl, kernel, probability, cw) ==
    /\ est = [e \in Est |-> SvmModel(impl, kernel, probability, cw, IF e = "A" THEN 1 ELSE 2)]
    /\ heap = [h \in Handles |->
                 IF h <= 2 THEN [st |-> "live", m |-> EmptyModel(index(SVM_TYPE, impl)), pro |-> <<>>]
                 ELSE FreeCell]
    /\ fs = [p \in Paths |-> IF p = "corrupt.txt" THEN Corrupt ELSE NoFile]
    /\ last = NoCall
    /\ memo = [e \in Est |-> [x \in PredictNames |-> Unset]]
    /\ saved = [p \in Paths |-> NotSaved]

Init ==
  \E impl \in Impls, kernel \in Kernels, probability \in {0, 1} :
  \E cw \in ClassWeights(impl) : Constructed(impl, kernel, probability, cw)

\* estimators with a known kernel and no class weights
InitPlain ==
  \E impl \in Impls, probability \in {0, 1} : Constructed(impl, "rbf", probability, NoWeights)

World(e) == [self |-> est[e], heap |-> heap, fs |-> fs, calls |-> <<>>, ret |-> None, exc |-> ""]

Commit(e, op, arg, w) ==
  LET after == w
  IN  /\ est' = [est EXCEPT ![e] = after.self]
      /\ heap' = after.heap
      /\ fs' = after.fs
      /\ last' = [e |-> e, op |-> op, arg |-> arg, calls |-> after.calls,
                  ret |-> after.ret, exc |-> after.exc]

\* fit stops before model_new: the data or the kernel is rejected
FitAborts(self, d) == ~check_X_y(d.rows, d.y) \/ self.kernel \notin Range(KERNEL_TYPE)

Fit(e, d, ok, wrote) ==
  /\ FitAborts(est[e], d) \/ CanAlloc(heap)
  /\ Commit(e, "fit", d.name, fit(World(e), d, d.y, ok, wrote))
  /\ memo' = [memo EXCEPT ![e] = [x \in PredictNames |-> Unset]]
  /\ UNCHANGED saved

\* memo[e][x] is <<labels, stage>> once predict(x) has answered on the fitted
\* estimator e: stage 0 at the first answer, 1 once another prediction call
\* has followed it, 2 once predict(x) has been called again after that
Interleaved(mm, name) ==
  [x \in PredictNames |->
     IF x # name /\ mm[x] # Unset /\ mm[x][2] = 0 THEN <<mm[x][1], 1>> ELSE mm[x]]

Predict(e, x, g) ==
  /\ Commit(e, "predict", x.name, predict(World(e), x, g))
  /\ memo' = [memo EXCEPT ![e] =
                LET mm == Interleaved(memo[e], x.name)
                IN  IF ~Fitted(e) \/ last'.exc # "" THEN mm
                    ELSE IF mm[x.name] = Unset
                    THEN [mm EXCEPT ![x.name] = <<last'.ret.val, 0>>]
                    ELSE IF mm[x.name][2] = 0 THEN mm
                    ELSE [mm EXCEPT ![x.name] = <<mm[x.name][1], 2>>]]
  /\ UNCHANGED saved

PredictProba(e, x, g) ==
  /\ Commit(e, "predict_proba", x.name, predict_proba(World(e), x, g))
  /\ memo' = [memo EXCEPT ![e] = Interleaved(memo[e], "")]
  /\ UNCHANGED saved

DecisionFunction(e, x, g) ==
  /\ Commit(e, "decision_function", x.name, decision_function(World(e), x, g))
  /\ memo' = [memo EXCEPT ![e] = Interleaved(memo[e], "")]
  /\ UNCHANGED saved

SaveToFile(e, path, g) ==
  /\ Commit(e, "save_to_file", path, save_to_file(World(e), path, g))
  /\ saved' = IF Writable(path)
              THEN [saved EXCEPT ![path] =
                      [fitted |-> Fitted(e) /\ est[e].shape_fit_ # Unset,
                       attrs |-> FittedAttrs(est[e])]]
              ELSE saved
  /\ UNCHANGED memo

LoadFromFile(e, path) ==
  /\ Commit(e, "load_from_file", path, load_from_file(World(e), path))
  /\ memo' = [memo EXCEPT ![e] = [x \in PredictNames |-> Unset]]
  /\ UNCHANGED saved

FitStep(e) == \E d \in FitInputs, ok \in BOOLEAN, wrote \in BOOLEAN : Fit(e, d, ok, wrote)
PredictStep(e) == \E x \in PredictInputs, g \in Deref(heap, est[e].model) : Predict(e, x, g)
PredictProbaStep(e) == \E x \in PredictInputs, g \in Deref(heap, est[e].model) : PredictProba(e, x, g)
DecisionFunctionStep(e) == \E x \in PredictInputs, g \in Deref(heap, est[e].model) : DecisionFunction(e, x, g)
SaveToFileStep(e) == \E path \in Paths, g \in Deref(heap, est[e].model) : SaveToFile(e, path, g)
LoadFromFileStep(e) == \E path \in Paths : LoadFromFile(e, path)

\* the life cycle of one estimator: fit, save, load
Next ==
  \/ FitStep("A")
  \/ SaveToFileStep("A")
  \/ LoadFromFileStep("A")

Spec == Init /\ [][Next]_vars

\* one estimator, fitted and queried
NextPredict ==
  \/ FitStep("A")
  \/ PredictStep("A")
  \/ PredictProbaStep("A")
  \/ DecisionFunctionStep("A")

SpecPredict == InitPlain /\ [][NextPredict]_vars

\* a model handed from estimator A to estimator B through a file
NextRoundTrip ==
  \/ FitStep("A")
  \/ SaveToFileStep("A")
  \/ LoadFromFileStep("B")

SpecRoundTrip == Init /\ [][NextRoundTrip]_vars

-----------------------------------------------------------------------------
(* Properties *)

FitInput(name) == CHOOSE d \in FitInputs : d.name = name
PredictInput(name) == CHOOSE x \in PredictInputs : x.name = name

TrainingCalls == {"dense_model_scikit", "sparse_model_scikit"}
ExtractionCalls == {"n_sv", "get_sv", "get_coef", "get_rho", "get_support_classes"}
PredictionCalls == {"dense_predict", "sparse_predict", "dense_decision", "sparse_decision", "get_pro"}

\* the fitted attributes fit assigns after a successful training
ModelAttrs(self) ==
  [dual_coef_ |-> self.dual_coef_, intercept_ |-> self.intercept_,
   support_vectors_ |-> self.support_vectors_, n_support_ |-> self.n_support_,
   shape_fit_ |-> self.shape_fit_]

\* the latest call was a fit whose native training call reported -1
FitReportedFailure(l, self) ==
  /\ l.op = "fit"
  /\ Range(l.calls) \cap TrainingCalls # {}
  /\ self._train_succeed = Some(-1)

\* C1: a fit whose native training call reports the failure flag returns
\* None, makes no model-extraction call and leaves dual_coef_, intercept_,
\* support_vectors_, n_support_ and shape_fit_ as they were.
C1_FailedFitExposesNoModel ==
  [][FitReportedFailure(last', est'[last'.e]) =>
       /\ last'.ret = None
       /\ Range(last'.calls) \cap ExtractionCalls = {}
       /\ ModelAttrs(est'[last'.e]) = ModelAttrs(est[last'.e])]_vars

\* a training failure on an estimator that already exposes a fitted model
C1_Witness ==
  /\ FitReportedFailure(last, est["A"])
  /\ est["A"].dual_coef_ # Unset

\* C3: a load_from_file that fails (no file at the path, or a corrupt one)
\* leaves the handle, every attribute of the estimator and the native heap
\* exactly as they were.
C3_FailedLoadLeavesModelUntouched ==
  [][(last'.op = "load_from_file" /\ fs[last'.arg].kind # "model") =>
       /\ est' = est
       /\ heap' = heap]_vars

\* a failing load on an estimator that holds a trained model
C3_Witness ==
  /\ last.op = "load_from_file"
  /\ fs[last.arg].kind # "model"
  /\ Fitted(last.e)
  /\ est[last.e].dual_coef_ # Unset

HyperParams(self) ==
  [kernel |-> self.kernel, degree |-> self.degree, gamma |-> self.gamma,
   coef0 |-> self.coef0, C |-> self.C, nu |-> self.nu, epsilon |-> self.epsilon,
   tol |-> self.tol, probability |-> self.probability,
   class_weight |-> self.class_weight, shrinking |-> self.shrinking,
   cache_size |-> self.cache_size, verbose |-> self.verbose, max_iter |-> self.max_iter,
   n_jobs |-> self.n_jobs, random_state |-> self.random_state,
   max_mem_size |-> self.max_mem_size]

\* C5: a fit call leaves every hyperparameter attribute, class_weight
\* included, with the value it had before the call.
C5_FitKeepsHyperparameters ==
  [][last'.op = "fit" => HyperParams(est'[last'.e]) = HyperParams(est[last'.e])]_vars

\* C6: a fit whose data fails validation (row count different from label
\* count) or whose kernel is not in KERNEL_TYPE is aborted, and invokes
\* neither native training entry point.
C6_RejectedFitNeverTrains ==
  (/\ last.op = "fit"
   /\ \/ Len(FitInput(last.arg).rows) # Len(FitInput(last.arg).y)
      \/ est[last.e].kernel \notin Range(KERNEL_TYPE))
  => /\ last.exc # ""
     /\ Range(last.calls) \cap TrainingCalls = {}

\* a fit rejected for its data on an estimator whose kernel is known
C6_Witness ==
  /\ last.op = "fit"
  /\ Len(FitInput(last.arg).rows) # Len(FitInput(last.arg).y)
  /\ est[last.e].kernel \in Range(KERNEL_TYPE)
  /\ last.exc = "ValueError"

\* C9: the handle every estimator holds in self.model is live: returned by
\* model_new and not yet passed to model_free.
C9_HandleIsLive == \A e \in Est : Live(heap, est[e].model)

\* what the estimator exposes, and what its native model holds
ExposedView(self) ==
  [n_sv |-> self.n_sv, dual_coef_ |-> self.dual_coef_,
   intercept_ |-> self.intercept_, n_support_ |-> self.n_support_]

NativeView(m) ==
  LET ncls == get_n_classes(m)
  IN  [n_sv |-> Some(n_sv(m)),
       dual_coef_ |-> Some(reshape(get_coef(m, ncls, n_sv(m)), ncls - 1, n_sv(m))),
       intercept_ |-> Some(get_rho(m, (ncls * (ncls - 1)) \div 2)),
       n_support_ |-> Some(get_support_classes(m, ncls))]

\* C10: the fitted attributes an estimator exposes are the values of the
\* native model its live handle refers to.
C10_AttributesAreThoseOfNativeModel ==
  \A e \in Est :
    (est[e].dual_coef_ # Unset /\ Live(heap, est[e].model))
    => ExposedView(est[e]) = NativeView(heap[est[e].model].m)

\* C2: once B has loaded a file that a fitted estimator A saved, B exposes
\* the support vectors, dual coefficients, intercepts and support counts
\* that A exposed when it saved.
C2_LoadExposesSavedModel ==
  (/\ last.op = "load_from_file"
   /\ fs[last.arg].kind = "model"
   /\ saved[last.arg].fitted)
  => FittedAttrs(est[last.e]) = saved[last.arg].attrs

\* C4: on a fitted estimator, predict(X) returns the labels it returned for
\* X before, whatever predict, predict_proba and decision_function calls
\* came in between, as long as no fit or load_from_file did.
C4_PredictRepeats ==
  [][(/\ last'.op = "predict"
      /\ last'.exc = ""
      /\ Fitted(last'.e)
      /\ memo[last'.e][last'.arg] # Unset)
     => last'.ret.val = memo[last'.e][last'.arg][1]]_vars

\* predict(X) called again after other prediction calls, with both the
\* probability and the decision value buffers of the estimator in use
C4_Witness ==
  /\ last.op = "predict"
  /\ memo[last.e][last.arg] # Unset
  /\ memo[last.e][last.arg][2] = 2
  /\ est[last.e].dec_values # Unset
  /\ est[last.e].predict_prob # Unset

\* C7 as stated: with the probability flag off predict_proba returns None,
\* makes no native predict or get_pro call, and changes no attribute.
C7_ProbaOffChangesNothing ==
  [][(last'.op = "predict_proba" /\ est[last'.e].probability = 0) =>
       /\ last'.ret = None
       /\ Range(last'.calls) \cap PredictionCalls = {}
       /\ est' = est]_vars

\* C7 amended: with the probability flag off predict_proba returns None,
\* raises nothing, calls get_n_classes alone, and changes no attribute but
\* n_classes, which it assigns from that call.
C7_ProbaOffOnlyRefreshesNClasses ==
  [][(last'.op = "predict_proba" /\ est[last'.e].probability = 0) =>
       /\ last'.ret = None
       /\ last'.exc = ""
       /\ last'.calls = <<"get_n_classes">>
       /\ est'[last'.e].n_classes # Unset
       /\ est' = [est EXCEPT ![last'.e].n_classes = est'[last'.e].n_classes]
       /\ heap' = heap]_vars

\* predict_proba on a fitted estimator built without probability
C7_Witness ==
  /\ last.op = "predict_proba"
  /\ est[last.e].probability = 0
  /\ Fitted(last.e)
  /\ last.ret = None

\* the estimator's latest successful fit was on dense data
FitOnDense(self) == self.support_vectors_ # Unset /\ self.support_vectors_[1].dense

\* C8: predict or decision_function (or predict_proba with probability on)
\* with a sparse input, on an estimator fit on dense data whose kernel is
\* not callable, raises ValueError and makes no native prediction call.
C8_SparseInputOnDenseFitRaises ==
  (/\ \/ last.op \in {"predict", "decision_function"}
      \/ last.op = "predict_proba" /\ est[last.e].probability # 0
   /\ PredictInput(last.arg).sparse
   /\ FitOnDense(est[last.e])
   /\ ~callable(est[last.e].kernel))
  => /\ last.exc = "ValueError"
     /\ Range(last.calls) \cap PredictionCalls = {}

====
